---- MODULE Spec2Model ----
(***************************************************************************)
(* State-machine model of ffmpeg_mcp (src/ffmpeg_mcp/main.py).  The tool   *)
(* functions registered with @mcp.tool use the helper functions defined    *)
(* in main.py itself; main.py does not import ffmpeg_mcp/utils/utils.py.   *)
(*                                                                         *)
(* A path is a sequence of one-character strings.  The filesystem is the   *)
(* set of regular files and the set of directories, keyed by the path as   *)
(* written.  Every tool handler is one atomic action that records what it  *)
(* did in the variable last.                                                *)
(***************************************************************************)
EXTENDS Integers, Sequences, FiniteSets, TLC

VARIABLES files, dirs, scratch, manifests, wmArtifact, last

vars == <<files, dirs, scratch, manifests, wmArtifact, last>>

(***************************************************************************)
(* Bounds of the model.                                                    *)
(***************************************************************************)
\* longest list of inputs handed to ffmpeg_concat_videos
MaxInputs == 2
\* number of distinct uuid4 names available to download_video
MaxScratch == 1
\* number of distinct NamedTemporaryFile names available to concat
MaxManifests == 1
\* largest number of 8192-byte chunks in a response body
MaxChunks == 2
\* largest number of streams in a probe's output
MaxStreams == 1

(***************************************************************************)
(* Paths.                                                                  *)
(***************************************************************************)
EmptyPath == << >>
\* "a.m": a local input
FA == <<"a", ".", "m">>
\* "http://u" and "https://u": remote references
FU == <<"h", "t", "t", "p", ":", "/", "/", "u">>
FS == <<"h", "t", "t", "p", "s", ":", "/", "/", "u">>
\* "http:/u" and "xhttp://u": local paths that only resemble a URL
FN == <<"h", "t", "t", "p", ":", "/", "u">>
FX == <<"x", "h", "t", "t", "p", ":", "/", "/", "u">>
\* "d/o.m" and "o.m": output paths with an extension; "d/e": one without
FO == <<"d", "/", "o", ".", "m">>
FP == <<"o", ".", "m">>
FE == <<"d", "/", "e">>

\* paths that may be regular files in the initial filesystem
FileCandidates == {FA, FU, FO, FP}
\* references handed to the tools as inputs
Refs == {FA, FU, FO}
\* paths handed to the tools as outputs
OutPaths == {FO, FP, FE}
\* paths handed to check_file_exists on its own
CheckPaths == {FA, FU, FS, FN, FX, FO, FE}

\* p[i..] begins with lit
StartsAt(p, i, lit) ==
    /\ Len(p) >= i + Len(lit) - 1
    /\ \A k \in 1..Len(lit) : p[i + k - 1] = lit[k]

\* re.match(r'^https?://', path): "http", an optional "s", then "://"
is_url(path) ==
    /\ StartsAt(path, 1, <<"h", "t", "t", "p">>)
    /\ \/ /\ Len(path) >= 5
          /\ path[5] = "s"
          /\ StartsAt(path, 6, <<":", "/", "/">>)
       \/ StartsAt(path, 5, <<":", "/", "/">>)

\* index of the last "/" of p, 0 when there is none (str.rfind + 1)
LastSlash(p) ==
    LET idx == {i \in 1..Len(p) : p[i] = "/"}
    IN  IF idx = {} THEN 0 ELSE CHOOSE i \in idx : \A j \in idx : j <= i

\* str.rstrip('/')
RECURSIVE RStripSlash(_)
RStripSlash(p) ==
    IF p # EmptyPath /\ p[Len(p)] = "/" THEN RStripSlash(SubSeq(p, 1, Len(p) - 1)) ELSE p

\* os.path.dirname (posixpath): the head up to the last "/", trailing
\* slashes stripped unless the head is slashes only
dirname(p) ==
    LET head == SubSeq(p, 1, LastSlash(p))
    IN  IF head # EmptyPath /\ \E i \in 1..Len(head) : head[i] # "/"
        THEN RStripSlash(head)
        ELSE head

\* the directories above p
RECURSIVE Ancestors(_)
Ancestors(p) ==
    LET h == dirname(p)
    IN  IF h = EmptyPath \/ h = p THEN {} ELSE {h} \cup Ancestors(h)

\* os.path.splitext(path)[1] is non-empty: the last component has a "."
\* that follows a character other than "."
HasExtension(p) ==
    \E d \in (LastSlash(p) + 1)..Len(p) :
        /\ p[d] = "."
        /\ \E c \in (LastSlash(p) + 1)..(d - 1) : p[c] # "."

\* os.path.isfile and os.path.exists
isfile(path, F) == path \in F
exists(path, F, D) == path \in F \/ path \in D

\* check_file_exists as the mutant that forgets the URL test
check_file_exists_NoUrlTest(file_path, F) == isfile(file_path, F)

\* check_file_exists(file_path): False for a URL, else os.path.isfile
check_file_exists(file_path, F) ==
    IF is_url(file_path) THEN FALSE ELSE isfile(file_path, F)

\* os.makedirs(directory, exist_ok=True): raises when a component of the
\* path is a regular file, else creates the directory and its parents
makedirs(directory, F, D) ==
    IF \E a \in Ancestors(directory) \cup {directory} : a \in F
    THEN [raised |-> TRUE, dirs |-> D]
    ELSE [raised |-> FALSE, dirs |-> D \cup Ancestors(directory) \cup {directory}]

\* ensure_directory_exists(path) of main.py: the parent when path is an
\* existing regular file, else path itself
ensure_directory_exists(path, F, D) ==
    LET directory == IF isfile(path, F) THEN dirname(path) ELSE path
    IN  IF directory # EmptyPath /\ ~exists(directory, F, D)
        THEN makedirs(directory, F, D)
        ELSE [raised |-> FALSE, dirs |-> D]

(***************************************************************************)
(* Inputs that come from outside the program.                              *)
(***************************************************************************)
\* subprocess.run: the process ran and exited, or the spawn raised
SpawnOutcomes == {"exit0", "exit1", "FileNotFoundError", "PermissionError"}
SpawnRaised(sp) == sp \in {"FileNotFoundError", "PermissionError"}

\* the engine cannot write its output onto a directory or into a missing one
EngineCanWrite(out, D) ==
    /\ out \notin D
    /\ dirname(out) = EmptyPath \/ dirname(out) \in D

\* delogo geometry: the defaults of ffmpeg_remove_watermark and another one
Geometries == {<<590, 1200, 100, 40>>, <<0, 0, 10, 10>>}
NoGeometry == << >>

\* what a path of the output area holds from ffmpeg_remove_watermark
NoArtifact == [src |-> EmptyPath, geom |-> NoGeometry]

(***************************************************************************)
(* The record of the last operation.                                       *)
(***************************************************************************)
NoProbe == [valid |-> FALSE, duration |-> "missing", size |-> "missing",
            bit_rate |-> "missing", streams |-> << >>]
NoInfo == [duration |-> 0, size |-> 0, bit_rate |-> 0, fps |-> << >>]

\* what the process given to subprocess.run(cmd, capture_output=True,
\* text=True) does: exit statuses (negative: ended by a signal), captured
\* texts, and the exceptions of spawning (no such executable, not executable)
\* and of communicating (the captured bytes do not decode as text)
ExitCodes == {0, 1, -9}
Texts == {<< >>, <<"w">>, <<"e", "r">>}
SpawnExceptions == {"FileNotFoundError", "PermissionError"}
CommunicateExceptions == {"UnicodeDecodeError"}
NoRun == [how |-> "none", code |-> 0, stdout |-> << >>, stderr |-> << >>]
Runs ==
    {[how |-> "completed", code |-> c, stdout |-> o, stderr |-> e] :
        c \in ExitCodes, o \in Texts, e \in Texts}
    \cup {[NoRun EXCEPT !.how = x] : x \in SpawnExceptions}
    \cup {[how |-> x, code |-> c, stdout |-> << >>, stderr |-> << >>] :
            x \in CommunicateExceptions, c \in ExitCodes}

Blank ==
    [op |-> "none", raised |-> "none", keys |-> {}, success |-> "absent",
     inputs |-> << >>, out |-> EmptyPath, geom |-> NoGeometry,
     preFiles |-> {}, preDirs |-> {}, preManifests |-> {}, preScratch |-> {},
     preArtifact |-> NoArtifact,
     spawn |-> "none", spawned |-> 0, download |-> "none", body |-> 0,
     written |-> 0, scratchId |-> 0,
     manifestId |-> 0, chk |-> FALSE, probe |-> NoProbe, info |-> NoInfo,
     ensured |-> FALSE, listening |-> FALSE, header |-> "", response |-> "none",
     toolEntered |-> FALSE,
     run |-> NoRun, error |-> << >>, stdout |-> << >>, stderr |-> << >>]

\* return {"error": ...}
ErrorOnly(r) == [r EXCEPT !.keys = {"error"}, !.success = "absent"]
\* return {"success": False, "error": ...}
Failure(r) == [r EXCEPT !.keys = {"success", "error"}, !.success = "false"]
\* return {"success": True, "message": ..., "output_path": ...}
Success(r) ==
    [r EXCEPT !.keys = {"success", "message", "output_path"}, !.success = "true"]

\* the record of an operation that starts now: its arguments, and the
\* filesystem it finds
Started(op, inputs, out) ==
    [Blank EXCEPT !.op = op, !.inputs = inputs, !.out = out,
                  !.preFiles = files, !.preDirs = dirs,
                  !.preManifests = manifests, !.preScratch = scratch,
                  !.preArtifact = IF out \in DOMAIN wmArtifact
                                  THEN wmArtifact[out]
                                  ELSE NoArtifact]

ToolOps ==
    {"ffmpeg_version", "ffmpeg_convert_video", "ffmpeg_extract_audio",
     "ffmpeg_create_thumbnail", "ffmpeg_remove_watermark",
     "ffmpeg_get_video_info", "ffmpeg_concat_videos"}

\* the directories that lie above the regular files F
ParentsOf(F) == UNION {Ancestors(f) : f \in F}

Init ==
    /\ files \in SUBSET FileCandidates
    /\ dirs = ParentsOf(files)
    /\ scratch = {}
    /\ manifests = {}
    /\ wmArtifact = [p \in OutPaths |-> NoArtifact]
    /\ last = Blank

\* no operation is in progress: the previous result has been handed back
Idle == last.op = "none"

\* the outcome of the last operation reaches its caller, and the next
\* request can be taken
Return ==
    /\ ~Idle
    /\ last' = Blank
    /\ UNCHANGED <<files, dirs, scratch, manifests, wmArtifact>>

(***************************************************************************)
(* check_file_exists called on its own.                                    *)
(***************************************************************************)
CheckFileExists(p) ==
    /\ Idle
    /\ last' = [Started("check_file_exists", <<p>>, EmptyPath)
                   EXCEPT !.chk = check_file_exists(p, files)]
    /\ UNCHANGED <<files, dirs, scratch, manifests, wmArtifact>>

(***************************************************************************)
(* run_ffmpeg_command                                                      *)
(***************************************************************************)
\* the same with every status that is not negative taken as success
run_ffmpeg_command_NonNegativeSucceeds(run) ==
    IF run.how = "completed"
    THEN IF run.code >= 0
         THEN [raised |-> "none", spawned |-> 1, success |-> "true",
               keys |-> {"success", "stdout", "stderr"}, error |-> << >>,
               stdout |-> run.stdout, stderr |-> run.stderr]
         ELSE [raised |-> "none", spawned |-> 1, success |-> "false",
               keys |-> {"success", "error", "stdout", "stderr"},
               error |-> <<"FFmpeg", ":">> \o run.stderr,
               stdout |-> run.stdout, stderr |-> run.stderr]
    ELSE [raised |-> "none", spawned |-> 1, success |-> "false",
          keys |-> {"success", "error"}, error |-> <<"FFmpeg", "!", run.how>>,
          stdout |-> << >>, stderr |-> << >>]

\* one subprocess.run inside try; returncode == 0 gives success with both
\* texts, another returncode gives success False with the error text built
\* from stderr and both texts, except Exception gives success False with
\* the error text built from str(e)
run_ffmpeg_command(run) ==
    IF run.how = "completed"
    THEN IF run.code = 0
         THEN [raised |-> "none", spawned |-> 1, success |-> "true",
               keys |-> {"success", "stdout", "stderr"}, error |-> << >>,
               stdout |-> run.stdout, stderr |-> run.stderr]
         ELSE [raised |-> "none", spawned |-> 1, success |-> "false",
               keys |-> {"success", "error", "stdout", "stderr"},
               error |-> <<"FFmpeg", ":">> \o run.stderr,
               stdout |-> run.stdout, stderr |-> run.stderr]
    ELSE [raised |-> "none", spawned |-> 1, success |-> "false",
          keys |-> {"success", "error"}, error |-> <<"FFmpeg", "!", run.how>>,
          stdout |-> << >>, stderr |-> << >>]

RunFfmpegCommand(run) ==
    /\ Idle
    /\ \E o \in {run_ffmpeg_command(run)} :
         last' = [Started("run_ffmpeg_command", << >>, EmptyPath)
                    EXCEPT !.run = run, !.raised = o.raised,
                           !.spawned = o.spawned, !.success = o.success,
                           !.keys = o.keys, !.error = o.error,
                           !.stdout = o.stdout, !.stderr = o.stderr]
    /\ UNCHANGED <<files, dirs, scratch, manifests, wmArtifact>>

(***************************************************************************)
(* ffmpeg_version                                                          *)
(***************************************************************************)
\* subprocess.run(..., check=True): a non-zero exit raises CalledProcessError;
\* only CalledProcessError and FileNotFoundError are caught
ffmpeg_version_result(sp) ==
    LET r == [Started("ffmpeg_version", << >>, EmptyPath)
                EXCEPT !.spawn = sp, !.spawned = 1]
    IN  CASE sp = "exit0" -> [r EXCEPT !.keys = {"version"}]
          [] sp = "exit1" -> ErrorOnly(r)
          [] sp = "FileNotFoundError" -> ErrorOnly(r)
          [] OTHER -> [r EXCEPT !.raised = sp]

FfmpegVersion(sp) ==
    /\ Idle
    /\ last' = ffmpeg_version_result(sp)
    /\ UNCHANGED <<files, dirs, scratch, manifests, wmArtifact>>

(***************************************************************************)
(* ffmpeg_convert_video, ffmpeg_create_thumbnail, ffmpeg_remove_watermark: *)
(* one local input, one output path.                                       *)
(***************************************************************************)
\* the body shared by the three handlers: check the input, ensure the
\* output directory, spawn the engine, shape the result
FileToolOutcome(op, in, out, geom, sp) ==
    LET r0 == [Started(op, <<in>>, out) EXCEPT !.geom = geom]
        ens == ensure_directory_exists(out, files, dirs)
        re == [r0 EXCEPT !.ensured = TRUE]
        r1 == [re EXCEPT !.spawn = sp, !.spawned = 1]
    IN  IF ~check_file_exists(in, files)
        THEN [res |-> ErrorOnly(r0), files |-> files, dirs |-> dirs, wrote |-> FALSE]
        ELSE IF ens.raised
        THEN [res |-> ErrorOnly(re), files |-> files, dirs |-> ens.dirs, wrote |-> FALSE]
        ELSE IF SpawnRaised(sp)
        THEN [res |-> ErrorOnly(r1), files |-> files, dirs |-> ens.dirs, wrote |-> FALSE]
        ELSE IF sp = "exit0"
        THEN [res |-> Success(r1), files |-> files \cup {out}, dirs |-> ens.dirs,
              wrote |-> TRUE]
        ELSE [res |-> Failure(r1), files |-> files, dirs |-> ens.dirs, wrote |-> FALSE]

\* exit status zero needs an output the engine can write, other than the
\* file it reads
SpawnPossible(o, out, sp) ==
    (o.res.spawned = 1 /\ sp = "exit0") =>
        /\ EngineCanWrite(out, o.dirs)
        /\ \A i \in 1..Len(o.res.inputs) : o.res.inputs[i] # out

FileTool(op, in, out, geom, sp) ==
    /\ Idle
    /\ \E o \in {FileToolOutcome(op, in, out, geom, sp)} :
        /\ SpawnPossible(o, out, sp)
        /\ last' = o.res
        /\ files' = o.files
        /\ dirs' = o.dirs
        /\ wmArtifact' =
             IF o.wrote
             THEN [wmArtifact EXCEPT ![out] =
                     IF op = "ffmpeg_remove_watermark"
                     THEN [src |-> in, geom |-> geom]
                     ELSE NoArtifact]
             ELSE wmArtifact
        /\ UNCHANGED <<scratch, manifests>>

FfmpegConvertVideo(in, out, sp) ==
    FileTool("ffmpeg_convert_video", in, out, NoGeometry, sp)

FfmpegCreateThumbnail(in, out, sp) ==
    FileTool("ffmpeg_create_thumbnail", in, out, NoGeometry, sp)

FfmpegRemoveWatermark(in, out, geom, sp) ==
    FileTool("ffmpeg_remove_watermark", in, out, geom, sp)

(***************************************************************************)
(* download_video(url) of main.py                                          *)
(***************************************************************************)
\* the fetches a call can meet: how it ends, the chunks n of the body, the
\* chunks k written before an I/O failure (k < n)
Fetches ==
    {[how |-> "request_error", n |-> 0, k |-> 0],
     [how |-> "error_status", n |-> 0, k |-> 0]}
    \cup {[how |-> "ok", n |-> n, k |-> n] : n \in 0..MaxChunks}
    \cup {[how |-> "io_error", n |-> c[1], k |-> c[2]] :
            c \in {x \in (1..MaxChunks) \X (0..MaxChunks) : x[2] < x[1]}}
NoFetch == [how |-> "none", n |-> 0, k |-> 0]

\* id: the uuid4 name of the scratch file; S: the scratch files that exist.
\* The file is opened only after requests.get and raise_for_status passed;
\* the except clause re-raises and removes nothing.
download_video(url, fetch, id, S) ==
    CASE fetch.how \in {"request_error", "error_status"} ->
           [raised |-> TRUE, id |-> 0, written |-> 0, scratch |-> S]
      [] fetch.how = "io_error" ->
           [raised |-> TRUE, id |-> id, written |-> fetch.k, scratch |-> S \cup {id}]
      [] OTHER ->
           [raised |-> FALSE, id |-> id, written |-> fetch.n, scratch |-> S \cup {id}]

\* the uuid4 names not yet in use, and the one the next call draws (a
\* fresh one: uuid4 names do not collide)
FreeScratch == (1..MaxScratch) \ scratch
NextScratch == CHOOSE i \in FreeScratch : \A j \in FreeScratch : i <= j

(***************************************************************************)
(* ffmpeg_extract_audio                                                    *)
(***************************************************************************)
ExtractAudioOutcome(video_path, audio_path, fetch, id, sp) ==
    LET r0 == Started("ffmpeg_extract_audio", <<video_path>>, audio_path)
        dl == IF is_url(video_path)
              THEN download_video(video_path, fetch, id, scratch)
              ELSE [raised |-> FALSE, id |-> 0, written |-> 0, scratch |-> scratch]
        r1 == IF is_url(video_path)
              THEN [r0 EXCEPT !.download = fetch.how, !.body = fetch.n,
                              !.written = dl.written, !.scratchId = dl.id]
              ELSE r0
        ens == ensure_directory_exists(audio_path, files, dirs)
        re == [r1 EXCEPT !.ensured = TRUE]
        r2 == [re EXCEPT !.spawn = sp, !.spawned = 1]
        ok == [Success(r2) EXCEPT !.keys = @ \cup {"source"}]
    IN  IF dl.raised
        THEN [res |-> ErrorOnly(r1), files |-> files, dirs |-> dirs,
              scratch |-> dl.scratch, wrote |-> FALSE]
        ELSE IF ~is_url(video_path) /\ ~check_file_exists(video_path, files)
        THEN [res |-> ErrorOnly(r1), files |-> files, dirs |-> dirs,
              scratch |-> dl.scratch, wrote |-> FALSE]
        ELSE IF ens.raised
        THEN [res |-> ErrorOnly(re), files |-> files, dirs |-> ens.dirs,
              scratch |-> dl.scratch, wrote |-> FALSE]
        ELSE IF SpawnRaised(sp)
        THEN [res |-> ErrorOnly(r2), files |-> files, dirs |-> ens.dirs,
              scratch |-> dl.scratch, wrote |-> FALSE]
        ELSE IF sp = "exit0"
        THEN [res |-> ok, files |-> files \cup {audio_path}, dirs |-> ens.dirs,
              scratch |-> dl.scratch, wrote |-> TRUE]
        ELSE [res |-> Failure(r2), files |-> files, dirs |-> ens.dirs,
              scratch |-> dl.scratch, wrote |-> FALSE]

FfmpegExtractAudio(video_path, audio_path, fetch, id, sp) ==
    /\ Idle
    /\ \E o \in {ExtractAudioOutcome(video_path, audio_path, fetch, id, sp)} :
        /\ SpawnPossible(o, audio_path, sp)
        /\ last' = o.res
        /\ files' = o.files
        /\ dirs' = o.dirs
        /\ scratch' = o.scratch
        /\ wmArtifact' = IF o.wrote
                         THEN [wmArtifact EXCEPT ![audio_path] = NoArtifact]
                         ELSE wmArtifact
        /\ UNCHANGED manifests

(***************************************************************************)
(* ffmpeg_get_video_info                                                   *)
(***************************************************************************)
\* a numeric field of the probe's "format" object: absent, a number ("12")
\* or text that is no number ("N/A")
NumFields == {"missing", "num", "bad"}

\* float(x) / int(x) of a field fetched with .get(name, 0)
ParseNumber(f) ==
    [raised |-> f = "bad", value |-> IF f = "num" THEN 12 ELSE 0]

\* r_frame_rate strings: absent, "30/1", "0/0", "a/b", "abc"
Rate(present, slash, numeric, num, den) ==
    [present |-> present, slash |-> slash, numeric |-> numeric,
     num |-> num, den |-> den]
RateMissing == Rate(FALSE, FALSE, FALSE, 0, 0)
Rate30 == Rate(TRUE, TRUE, TRUE, 30, 1)
Rate00 == Rate(TRUE, TRUE, TRUE, 0, 0)
RateAB == Rate(TRUE, TRUE, FALSE, 0, 0)
RateABC == Rate(TRUE, FALSE, FALSE, 0, 0)
Rates == {RateMissing, Rate30, Rate00, RateAB, RateABC}

\* eval(r) if "/" in r else 0, with r = stream.get("r_frame_rate", "0/1")
eval_fps(rate) ==
    LET r == IF rate.present THEN rate ELSE Rate(TRUE, TRUE, TRUE, 0, 1)
    IN  IF ~r.slash THEN [raised |-> FALSE, value |-> 0]
        ELSE IF ~r.numeric THEN [raised |-> TRUE, value |-> 0]
        ELSE IF r.den = 0 THEN [raised |-> TRUE, value |-> 0]
        ELSE [raised |-> FALSE, value |-> r.num \div r.den]

Streams ==
    {[codec_type |-> "video", rate |-> r] : r \in Rates}
    \cup {[codec_type |-> t, rate |-> RateMissing] : t \in {"audio", "data"}}

StreamLists == UNION {[1..n -> Streams] : n \in 0..MaxStreams}

\* the probe's standard output on exit status zero
Probes ==
    {NoProbe}
    \cup {[valid |-> TRUE, duration |-> d, size |-> z, bit_rate |-> b, streams |-> << >>] :
            d \in NumFields, z \in NumFields, b \in NumFields}
    \cup {[valid |-> TRUE, duration |-> "num", size |-> "num", bit_rate |-> "num",
           streams |-> ss] : ss \in StreamLists}

\* the per-stream records, and whether building one of them raised
StreamInfo(streams) ==
    [raised |-> \E i \in 1..Len(streams) :
                   streams[i].codec_type = "video" /\ eval_fps(streams[i].rate).raised,
     fps |-> [i \in 1..Len(streams) |->
                IF streams[i].codec_type = "video"
                THEN eval_fps(streams[i].rate).value
                ELSE 0]]

VideoInfoOutcome(video_path, sp, probe) ==
    LET r0 == Started("ffmpeg_get_video_info", <<video_path>>, EmptyPath)
        r1 == [r0 EXCEPT !.spawn = sp, !.spawned = 1,
                         !.probe = IF sp = "exit0" THEN probe ELSE NoProbe]
        d == ParseNumber(probe.duration)
        z == ParseNumber(probe.size)
        b == ParseNumber(probe.bit_rate)
        st == StreamInfo(probe.streams)
    IN  IF ~check_file_exists(video_path, files) THEN ErrorOnly(r0)
        ELSE IF SpawnRaised(sp) THEN ErrorOnly(r1)
        ELSE IF sp # "exit0" THEN Failure(r1)
        ELSE IF ~probe.valid THEN ErrorOnly(r1)
        ELSE IF d.raised \/ z.raised \/ b.raised \/ st.raised THEN ErrorOnly(r1)
        ELSE [r1 EXCEPT !.keys = {"success", "info"}, !.success = "true",
                        !.info = [duration |-> d.value, size |-> z.value,
                                  bit_rate |-> b.value, fps |-> st.fps]]

FfmpegGetVideoInfo(video_path, sp, probe) ==
    /\ Idle
    /\ last' = VideoInfoOutcome(video_path, sp, probe)
    /\ UNCHANGED <<files, dirs, scratch, manifests, wmArtifact>>

(***************************************************************************)
(* ffmpeg_concat_videos                                                    *)
(***************************************************************************)
ConcatLists == UNION {[1..n -> Refs] : n \in 0..MaxInputs}

\* the validation as the mutant that drops the length test
ConcatRejects_NoLengthTest(video_paths, F) ==
    \E i \in 1..Len(video_paths) : ~check_file_exists(video_paths[i], F)

\* the two early returns: some input is missing, or fewer than two inputs
ConcatRejects(video_paths, F) ==
    \/ \E i \in 1..Len(video_paths) : ~check_file_exists(video_paths[i], F)
    \/ Len(video_paths) < 2

\* the NamedTemporaryFile names not yet in use, and the next one drawn
FreeManifests == (1..MaxManifests) \ manifests
NextManifest == CHOOSE i \in FreeManifests : \A j \in FreeManifests : i <= j

\* id: the name of the manifest file.  os.unlink is reached only when
\* subprocess.run returned.
ConcatOutcome(video_paths, output_path, id, sp) ==
    LET r0 == Started("ffmpeg_concat_videos", video_paths, output_path)
        ens == ensure_directory_exists(output_path, files, dirs)
        re == [r0 EXCEPT !.ensured = TRUE]
        r1 == [re EXCEPT !.manifestId = id, !.spawn = sp, !.spawned = 1]
    IN  IF ConcatRejects(video_paths, files)
        THEN [res |-> ErrorOnly(r0), files |-> files, dirs |-> dirs,
              manifests |-> manifests, wrote |-> FALSE]
        ELSE IF ens.raised
        THEN [res |-> ErrorOnly(re), files |-> files, dirs |-> ens.dirs,
              manifests |-> manifests, wrote |-> FALSE]
        ELSE IF SpawnRaised(sp)
        THEN [res |-> ErrorOnly(r1), files |-> files, dirs |-> ens.dirs,
              manifests |-> manifests \cup {id}, wrote |-> FALSE]
        ELSE IF sp = "exit0"
        THEN [res |-> Success(r1), files |-> files \cup {output_path},
              dirs |-> ens.dirs, manifests |-> manifests, wrote |-> TRUE]
        ELSE [res |-> Failure(r1), files |-> files, dirs |-> ens.dirs,
              manifests |-> manifests, wrote |-> FALSE]

FfmpegConcatVideos(video_paths, output_path, id, sp) ==
    /\ Idle
    /\ \E o \in {ConcatOutcome(video_paths, output_path, id, sp)} :
        /\ SpawnPossible(o, output_path, sp)
        /\ last' = o.res
        /\ files' = o.files
        /\ dirs' = o.dirs
        /\ manifests' = o.manifests
        /\ wmArtifact' = IF o.wrote
                         THEN [wmArtifact EXCEPT ![output_path] = NoArtifact]
                         ELSE wmArtifact
        /\ UNCHANGED scratch

(***************************************************************************)
(* serve_host and the requests sent to the network endpoint                *)
(***************************************************************************)
\* serve_host takes host_address and port only: no option sets a secret
SharedSecret == ""

\* the values of the designated header a client may send ("" when absent)
Headers == {"", "s3cret"}

\* The first typer.echo formats {transport}, a name that is bound nowhere:
\* NameError is raised before mcp.run is reached, so nothing listens.
ServeHost ==
    /\ Idle
    /\ last' = [Blank EXCEPT !.op = "serve_host", !.raised = "NameError",
                             !.listening = FALSE]
    /\ UNCHANGED <<files, dirs, scratch, manifests, wmArtifact>>

\* a client's request to the address serve_host was started on
HostRequest(header) ==
    /\ last.op = "serve_host"
    /\ last' = [Blank EXCEPT !.op = "host_request", !.header = header,
                             !.listening = last.listening,
                             !.response = IF last.listening
                                          THEN "accepted"
                                          ELSE "connection_refused",
                             !.toolEntered = last.listening]
    /\ UNCHANGED <<files, dirs, scratch, manifests, wmArtifact>>

Next ==
    \/ Return
    \/ Idle /\ \E p \in CheckPaths : CheckFileExists(p)
    \/ Idle /\ \E sp \in SpawnOutcomes : FfmpegVersion(sp)
    \/ Idle /\ \E run \in Runs : RunFfmpegCommand(run)
    \/ Idle /\ \E in \in Refs, out \in OutPaths, sp \in SpawnOutcomes :
                 FfmpegConvertVideo(in, out, sp)
    \/ Idle /\ \E in \in Refs, out \in OutPaths, sp \in SpawnOutcomes :
                 FfmpegCreateThumbnail(in, out, sp)
    \/ Idle /\ \E in \in Refs, out \in OutPaths, geom \in Geometries,
                  sp \in SpawnOutcomes :
                 FfmpegRemoveWatermark(in, out, geom, sp)
    \/ Idle /\ \E video_path \in {r \in Refs : is_url(r)}, audio_path \in OutPaths,
                  fetch \in Fetches, sp \in SpawnOutcomes :
                 /\ FreeScratch # {}
                 /\ FfmpegExtractAudio(video_path, audio_path, fetch, NextScratch, sp)
    \/ Idle /\ \E video_path \in {r \in Refs : ~is_url(r)}, audio_path \in OutPaths,
                  sp \in SpawnOutcomes :
                 FfmpegExtractAudio(video_path, audio_path, NoFetch, 0, sp)
    \/ Idle /\ \E video_path \in Refs, probe \in Probes :
                 FfmpegGetVideoInfo(video_path, "exit0", probe)
    \/ Idle /\ \E video_path \in Refs, sp \in SpawnOutcomes \ {"exit0"} :
                 FfmpegGetVideoInfo(video_path, sp, NoProbe)
    \/ Idle /\ \E video_paths \in {l \in ConcatLists : ConcatRejects(l, files)},
                  output_path \in OutPaths :
                 FfmpegConcatVideos(video_paths, output_path, 0, "none")
    \/ Idle /\ \E video_paths \in {l \in ConcatLists : ~ConcatRejects(l, files)},
                  output_path \in OutPaths, sp \in SpawnOutcomes :
                 /\ FreeManifests # {}
                 /\ FfmpegConcatVideos(video_paths, output_path, NextManifest, sp)
    \/ Idle /\ ServeHost
    \/ \E header \in Headers : HostRequest(header)

Spec == Init /\ [][Next]_vars

(***************************************************************************)
(* Properties.                                                             *)
(***************************************************************************)
\* pre is a prefix of p
IsPrefix(pre, p) == Len(p) >= Len(pre) /\ SubSeq(p, 1, Len(pre)) = pre

\* the reference starts with http:// or https://
RemoteRef(p) ==
    \/ IsPrefix(<<"h", "t", "t", "p", ":", "/", "/">>, p)
    \/ IsPrefix(<<"h", "t", "t", "p", "s", ":", "/", "/">>, p)

OutputOps == ToolOps \ {"ffmpeg_version", "ffmpeg_get_video_info"}
FetchFailures == {"request_error", "error_status", "io_error"}

\* C1: every tool invocation ends by returning a result mapping and never
\* by raising an exception, whatever the spawn outcome.
C1_NeverRaises == (last.op \in ToolOps) => last.raised = "none"

\* C2: every returned mapping carries a success indicator and is either
\* success true with an output path or payload and no error, or success
\* false with an error message and no output path.
C2_ResultShape ==
    (last.op \in ToolOps /\ last.raised = "none") =>
        /\ "success" \in last.keys
        /\ \/ /\ last.success = "true"
              /\ last.keys \cap {"output_path", "info", "version"} # {}
              /\ "error" \notin last.keys
           \/ /\ last.success = "false"
              /\ "error" \in last.keys
              /\ "output_path" \notin last.keys

\* a structural precondition of the invocation is violated
PreconditionViolated(l) == l.op = "ffmpeg_concat_videos" /\ Len(l.inputs) < 2

\* one input reference of the invocation did not resolve: a local file is
\* missing, a download failed, or a remote reference was handed to a tool
\* that resolves local files only
InputUnresolved(l) ==
    \E i \in 1..Len(l.inputs) :
        IF RemoteRef(l.inputs[i])
        THEN (l.op = "ffmpeg_extract_audio") => l.download \in FetchFailures
        ELSE l.inputs[i] \notin l.preFiles

\* C3: an invocation whose precondition is violated or one of whose inputs
\* does not resolve returns a failure, spawns no engine process and creates
\* no directory and no manifest file.
C3_NoSpawnBeforeValidation ==
    (last.op \in ToolOps /\ (PreconditionViolated(last) \/ InputUnresolved(last))) =>
        /\ last.raised = "none"
        /\ "error" \in last.keys
        /\ last.success # "true"
        /\ last.spawned = 0
        /\ dirs = last.preDirs
        /\ last.manifestId = 0
        /\ manifests = last.preManifests
        /\ files = last.preFiles

\* concat was called with one input that exists, and has returned
C3_Witness ==
    /\ last.op = "ffmpeg_concat_videos"
    /\ Len(last.inputs) = 1
    /\ last.inputs[1] \in last.preFiles
    /\ ~RemoteRef(last.inputs[1])
    /\ last.keys = {"error"}

\* C4: a download either leaves a new scratch file holding the whole body,
\* or fails and leaves no scratch file of that call behind.
C4_NoScratchLeftOnFailure ==
    (last.op = "ffmpeg_extract_audio" /\ last.download # "none") =>
        IF last.download \in FetchFailures
        THEN scratch = last.preScratch
        ELSE /\ last.scratchId \in scratch \ last.preScratch
             /\ last.written = last.body

\* C5: a successful watermark removal never writes over the artifact that
\* an earlier watermark removal of the same source with the same
\* parameters produced.
C5_NoOverwrite ==
    ~ /\ last.op = "ffmpeg_remove_watermark"
      /\ last.success = "true"
      /\ last.preArtifact = [src |-> last.inputs[1], geom |-> last.geom]

\* C6: in host mode a request is rejected before any tool logic when a
\* secret is configured and the header does not equal it, and every request
\* is accepted when no secret is configured.
C6_GateOrAccept ==
    (last.op = "host_request") =>
        IF SharedSecret # ""
        THEN (last.header # SharedSecret) =>
                (last.response = "unauthorized" /\ ~last.toolEntered)
        ELSE last.response = "accepted"

\* C7: check_file_exists is false for every reference that starts with
\* http:// or https://, whatever the filesystem holds, is true for any other
\* reference exactly when a regular file exists at it, and changes nothing.
C7_CheckFileExists ==
    (last.op = "check_file_exists") =>
        /\ RemoteRef(last.inputs[1]) => last.chk = FALSE
        /\ ~RemoteRef(last.inputs[1]) => (last.chk = (last.inputs[1] \in last.preFiles))
        /\ files = last.preFiles
        /\ dirs = last.preDirs
        /\ scratch = last.preScratch
        /\ manifests = last.preManifests

\* check_file_exists answered for a URL at which a local file exists
C7_Witness ==
    /\ last.op = "check_file_exists"
    /\ last.inputs[1] \in {FU, FS}
    /\ last.inputs[1] \in files
    /\ last.chk = FALSE

\* C8: when the probe exits with status zero and prints valid JSON, the
\* inspection succeeds whatever the fields hold; rates with a zero
\* denominator or not of the form a/b give fps 0, unparseable or missing
\* numbers give 0.
C8_InspectionSucceeds ==
    (/\ last.op = "ffmpeg_get_video_info"
     /\ last.spawn = "exit0"
     /\ last.probe.valid) =>
        /\ last.success = "true"
        /\ last.probe.duration # "num" => last.info.duration = 0
        /\ last.probe.size # "num" => last.info.size = 0
        /\ last.probe.bit_rate # "num" => last.info.bit_rate = 0
        /\ \A i \in 1..Len(last.probe.streams) :
             (/\ last.probe.streams[i].codec_type = "video"
              /\ last.probe.streams[i].rate \in {Rate00, RateAB, RateABC}) =>
                 last.info.fps[i] = 0

\* C9: a manifest file that a concat invocation created no longer exists
\* when the invocation returns.
C9_ManifestRemoved ==
    (last.op = "ffmpeg_concat_videos" /\ last.manifestId # 0) =>
        last.manifestId \notin manifests

\* C10: after a tool ensured the directory of an output path that did not
\* exist, a path with an extension has its parent directory and is itself
\* no directory; a path without an extension is a directory.
C10_ParentCreatedNotPath ==
    (/\ last.op \in OutputOps
     /\ last.ensured
     /\ last.spawned = 1
     /\ last.out \notin last.preFiles \cup last.preDirs) =>
        IF HasExtension(last.out)
        THEN /\ last.out \notin dirs
             /\ dirname(last.out) = EmptyPath \/ dirname(last.out) \in dirs
        ELSE last.out \in dirs

\* the text t occurs in the message m
Embeds(m, t) ==
    \E i \in 1..(Len(m) + 1) :
        /\ i + Len(t) - 1 <= Len(m)
        /\ \A j \in 1..Len(t) : m[i + j - 1] = t[j]

\* C11: run_ffmpeg_command spawns the process at most once and does not
\* raise; it returns success true exactly when the process ran to completion
\* with exit status zero; for a non-zero exit it returns success false with
\* an error message that embeds the captured standard error, plus the raw
\* stdout and stderr; for an exception of spawning or communicating it
\* returns success false with an error message.
C11_RunFfmpegCommand ==
    (last.op = "run_ffmpeg_command") =>
        /\ last.spawned <= 1
        /\ last.raised = "none"
        /\ "success" \in last.keys
        /\ (last.success = "true") <=>
              (last.run.how = "completed" /\ last.run.code = 0)
        /\ last.success \in {"true", "false"}
        /\ (last.run.how = "completed" /\ last.run.code # 0) =>
              /\ {"error", "stdout", "stderr"} \subseteq last.keys
              /\ Embeds(last.error, last.run.stderr)
              /\ last.stdout = last.run.stdout
              /\ last.stderr = last.run.stderr
        /\ (last.run.how # "completed") =>
              /\ "error" \in last.keys
              /\ last.error # << >>
        /\ files = last.preFiles /\ dirs = last.preDirs

\* the process ended by a signal after writing to its standard error, and
\* the failure came back with that text
C11_Witness ==
    /\ last.op = "run_ffmpeg_command"
    /\ last.run.how = "completed"
    /\ last.run.code < 0
    /\ Len(last.run.stderr) > 1
    /\ last.success = "false"
    /\ Embeds(last.error, last.run.stderr)
====
